---- MODULE Spec2Model ----
(***************************************************************************)
(* Order placement pipeline of the flower-hub backend                      *)
(* (src/services/order.service.ts): createOrder, cancelOrder, updateOrder  *)
(* and validateCoupon over the product, coupon, address and order stores,  *)
(* with updateProduct (product.service.ts) and updateAddress and           *)
(* deleteAddress (user.service.ts), which write the same stores.           *)
(* Every `await` of a handler is one step, so that concurrent requests     *)
(* interleave exactly where the Node event loop lets them.                 *)
(* Money is counted in cents.                                              *)
(***************************************************************************)
EXTENDS Integers, Sequences, FiniteSets, TLC

\* ---------------------------------------------------------------- bounds
MaxCalls == 2          \* createOrder requests issued in one behaviour
MaxCancels == 1        \* cancelOrder requests issued in one behaviour
MaxUpdates == 1        \* update requests (order, product, address) in one behaviour
MaxItems == 2          \* lines of one createOrder request
MaxQty == 2            \* largest quantity of one line
InitStock == 2         \* stockCount of a stocked product at start
MaxNow == 3            \* the clock stops advancing here
MaxCartItems == 2      \* cart items created in one behaviour

\* ------------------------------------------------------------ the stores
Products == {"p1", "p2"}                 \* rows of the product table
ProductIds == Products \cup {"px"}       \* "px" names no row
Users == {"u1", "u2"}
Customers == {"u1"}                      \* the users who place orders
CallIds == 1..MaxCalls
CancelIds == 1..MaxCancels

NoCode == ""
\* The street of the addresses a createOrder request carries, and the streets
\* an updateAddress request may carry.
OrderStreet == "1 Rose Lane"
Streets == {"1 Rose Lane", "2 Tulip Road"}
AddressIds == 1..(2 * MaxCalls)
StoredCode == "SAVE10"
RequestCodes == {NoCode, "SAVE10", "save10", "NOPE"}

OrderStatus ==
  {"PENDING", "CONFIRMED", "PROCESSING", "SHIPPED", "DELIVERED", "CANCELLED", "REFUNDED"}

VARIABLES
  stockCount,   \* product.stockCount, by product id
  inStock,      \* product.inStock, by product id
  price,        \* product.price in cents, by product id
  coupon,       \* the row of the coupon table (code StoredCode)
  addresses,    \* the address table: sequence of rows
  orders,       \* the order table with its order items: sequence of rows
  now,          \* the wall clock read by validateCoupon
  call,         \* createOrder requests: position and locals, by call id
  cancel,       \* cancelOrder requests: position and locals, by cancel id
  nUpdates,     \* updateOrder, updateProduct and address-book requests served so far
  stock0,       \* history: stockCount of every product at start
  reply,        \* the response to the last read or cart request
  cart          \* the cartItem table: sequence of rows

vars ==
  <<stockCount, inStock, price, coupon, addresses, orders, now, call, cancel, nUpdates, stock0, reply, cart>>

\* ------------------------------------------------------- pure functions
\* String.prototype.toUpperCase on the codes a request can carry.
ToUpperCase(code) ==
  CASE code = "save10" -> "SAVE10"
    [] OTHER -> code

\* calculateShipping: free from 50.00, standard from 25.00, else express.
calculateShippingMut(amount) ==
  IF amount > 5000 THEN 0
  ELSE IF amount >= 2500 THEN 599
  ELSE 999

calculateShipping(amount) ==
  IF amount >= 5000 THEN 0
  ELSE IF amount >= 2500 THEN 599
  ELSE 999

\* calculateTax: Math.round(amount * 0.08 * 100) / 100, in cents.
calculateTaxMut(amount) == (amount * 8) \div 100

calculateTax(amount) == (amount * 8 + 50) \div 100

Min(a, b) == IF a <= b THEN a ELSE b

\* validateCoupon: the stored coupon when every check passes, else null.
\* An optional field that is not set is 0 (falsy in the source's tests).
validateCouponMut(code, amount) ==
  /\ ToUpperCase(code) = coupon.code
  /\ coupon.isActive
  /\ ~(now < coupon.validFrom \/ now > coupon.validUntil)
  /\ ~(coupon.minimumAmount # 0 /\ amount < coupon.minimumAmount)
  /\ ~(coupon.usageLimit # 0 /\ coupon.usedCount > coupon.usageLimit)

validateCoupon(code, amount) ==
  /\ ToUpperCase(code) = coupon.code
  /\ coupon.isActive
  /\ ~(now < coupon.validFrom \/ now > coupon.validUntil)
  /\ ~(coupon.minimumAmount # 0 /\ amount < coupon.minimumAmount)
  /\ ~(coupon.usageLimit # 0 /\ coupon.usedCount >= coupon.usageLimit)

\* The discount branch of createOrder for a validated coupon.
couponDiscountMut(subtotal) ==
  IF coupon.maximumDiscount # 0
  THEN Min(IF coupon.type = "percentage" THEN (subtotal * coupon.value) \div 100
           ELSE coupon.value, coupon.maximumDiscount)
  ELSE IF coupon.type = "percentage" THEN (subtotal * coupon.value) \div 100
  ELSE coupon.value

couponDiscount(subtotal) ==
  IF coupon.type = "percentage"
  THEN IF coupon.maximumDiscount # 0
       THEN Min((subtotal * coupon.value) \div 100, coupon.maximumDiscount)
       ELSE (subtotal * coupon.value) \div 100
  ELSE coupon.value

\* Prisma's atomic number operations `{ increment: n }` and `{ decrement: n }`.
incrementMut(table, id, n) == [table EXCEPT ![id] = @ + 1]

increment(table, id, n) == [table EXCEPT ![id] = @ + n]

decrementMut(table, id, n) == [table EXCEPT ![id] = stock0[id] - n]

decrement(table, id, n) == [table EXCEPT ![id] = @ - n]

\* The stock test of one line: `!product.inStock || product.stockCount < quantity`.
insufficientStockMut(p, quantity) == ~inStock[p] \/ stockCount[p] <= quantity

insufficientStock(p, quantity) == ~inStock[p] \/ stockCount[p] < quantity

\* ------------------------------------------------------------- requests
Lines == [productId : ProductIds, quantity : 1..MaxQty]

RECURSIVE SeqsUpTo(_, _)
SeqsUpTo(S, n) ==
  IF n = 0 THEN {<<>>}
  ELSE LET shorter == SeqsUpTo(S, n - 1)
       IN shorter \cup {Append(q, x) : q \in {r \in shorter : Len(r) = n - 1}, x \in S}

\* Joi: items is an array of at least one line, quantity an integer >= 1.
ItemLists == SeqsUpTo(Lines, MaxItems) \ {<<>>}
SingleLines == {items \in ItemLists : Len(items) = 1}

\* ------------------------------------------------------- initial state
\* Rows the coupon table can hold; createCoupon stores the code in upper case.
PlainCoupon ==
  [code |-> StoredCode, type |-> "percentage", value |-> 10, minimumAmount |-> 2500,
   maximumDiscount |-> 0, usageLimit |-> 1, usedCount |-> 0, isActive |-> TRUE,
   validFrom |-> 1, validUntil |-> MaxNow]

CouponRows ==
  { PlainCoupon,
    [code |-> StoredCode, type |-> "fixed", value |-> 3000, minimumAmount |-> 0,
     maximumDiscount |-> 0, usageLimit |-> 0, usedCount |-> 0, isActive |-> TRUE,
     validFrom |-> 2, validUntil |-> 2],
    [code |-> StoredCode, type |-> "percentage", value |-> 10, minimumAmount |-> 0,
     maximumDiscount |-> 100, usageLimit |-> 1, usedCount |-> 0, isActive |-> FALSE,
     validFrom |-> 1, validUntil |-> MaxNow],
    [code |-> StoredCode, type |-> "fixed", value |-> 500, minimumAmount |-> 0,
     maximumDiscount |-> 0, usageLimit |-> 2, usedCount |-> 0, isActive |-> TRUE,
     validFrom |-> MaxNow, validUntil |-> MaxNow + 1] }

\* createProduct sets inStock to stockCount > 0; "p1" is stocked, "p2" may be sold out.
StockRows == {[p \in Products |-> IF p = "p1" THEN InitStock ELSE n] : n \in {0, InitStock}}

NoReply == [op |-> "", userId |-> "", status |-> 0, message |-> "", orderId |-> 0]

IdleCall ==
  [pc |-> "idle", userId |-> "", items |-> <<>>, couponCode |-> NoCode, idx |-> 0,
   orderItems |-> <<>>, subtotal |-> 0, discount |-> 0, applied |-> FALSE,
   orderId |-> 0, err |-> 0, wrote |-> {}, shippingId |-> 0]

IdleCancel ==
  [pc |-> "idle", userId |-> "", orderId |-> 0, items |-> <<>>, idx |-> 0, err |-> 0,
   restored |-> [p \in Products |-> 0]]

InitWith(stockRows, couponRows) ==
  /\ stockCount \in stockRows
  /\ stock0 = stockCount
  /\ inStock = [p \in Products |-> stockCount[p] > 0]
  /\ price = [p \in Products |-> IF p = "p1" THEN 1250 ELSE 2500]
  /\ coupon \in couponRows
  /\ addresses = <<>>
  /\ orders = <<>>
  /\ now = 2
  /\ call = [c \in CallIds |-> IdleCall]
  /\ cancel = [k \in CancelIds |-> IdleCancel]
  /\ nUpdates = 0
  /\ reply = NoReply
  /\ cart = <<>>

Init == InitWith(StockRows, {PlainCoupon})

\* ------------------------------------------------------------ createOrder
\* What a finished request keeps: its outcome, not its working storage.
Finished(r, pc, err) ==
  [r EXCEPT !.pc = pc, !.err = err, !.userId = "", !.items = <<>>,
            !.orderItems = <<>>, !.idx = 0, !.subtotal = 0, !.discount = 0,
            !.shippingId = 0]

\* Lines 184-206: a request (user, items, couponCode) arrives and both
\* addresses are inserted.  Call ids are handed out in order.
CreateAddresses(c, users, itemLists, codes) ==
  /\ call[c].pc = "idle"
  /\ \A d \in CallIds : d < c => call[d].pc # "idle"
  /\ \E u \in users, items \in itemLists, code \in codes :
       /\ addresses' = addresses \o
            <<[userId |-> u, type |-> "SHIPPING", street |-> OrderStreet, deleted |-> FALSE],
              [userId |-> u, type |-> "BILLING", street |-> OrderStreet, deleted |-> FALSE]>>
       /\ call' = [call EXCEPT ![c] =
            [IdleCall EXCEPT !.pc = "validate", !.userId = u, !.items = items,
                             !.couponCode = code, !.idx = 1, !.wrote = {"address"},
                             !.shippingId = Len(addresses) + 1]]
  /\ UNCHANGED <<stockCount, inStock, price, coupon, orders, now, cancel, nUpdates, stock0, reply, cart>>

\* Lines 212-235: one turn of the validation loop (one product.findUnique).
ValidateItem(c) ==
  /\ call[c].pc = "validate"
  /\ call[c].idx <= Len(call[c].items)
  /\ LET item == call[c].items[call[c].idx] IN
       IF item.productId \notin Products
       THEN call' = [call EXCEPT ![c] = Finished(@, "failed", 404)]
       ELSE IF insufficientStock(item.productId, item.quantity)
       THEN call' = [call EXCEPT ![c] = Finished(@, "failed", 400)]
       ELSE call' = [call EXCEPT
              ![c].subtotal = @ + price[item.productId] * item.quantity,
              ![c].orderItems = Append(@, [productId |-> item.productId,
                                           quantity |-> item.quantity,
                                           price |-> price[item.productId]]),
              ![c].idx = @ + 1]
  /\ UNCHANGED <<stockCount, inStock, price, coupon, addresses, orders, now, cancel,
                 nUpdates, stock0, reply, cart>>

\* Lines 237-257: shipping, tax and the coupon lookup (validateCoupon).
ApplyCoupon(c) ==
  /\ call[c].pc = "validate"
  /\ call[c].idx > Len(call[c].items)
  /\ LET ok == call[c].couponCode # NoCode
               /\ validateCoupon(call[c].couponCode, call[c].subtotal)
     IN call' = [call EXCEPT
          ![c].pc = "create",
          ![c].applied = ok,
          ![c].discount = IF ok THEN couponDiscount(call[c].subtotal) ELSE 0]
  /\ UNCHANGED <<stockCount, inStock, price, coupon, addresses, orders, now, cancel,
                 nUpdates, stock0, reply, cart>>

\* Line 257: total = subtotal + shipping + tax - discount.
orderTotalMut(subtotal, shipping, tax, discount) == subtotal + shipping + tax

orderTotal(subtotal, shipping, tax, discount) == subtotal + shipping + tax - discount

\* Lines 228-232 and 275-277: the order items are created from the lines
\* collected by the validation loop, each with the price read there.
orderItemRowsMut(c) ==
  [i \in DOMAIN call[c].orderItems |->
     [call[c].orderItems[i] EXCEPT !.price = price[call[c].orderItems[i].productId]]]

orderItemRows(c) == call[c].orderItems

\* Lines 268-270: status, paymentMethod and paymentStatus of a new order row.
NewOrderStateMut ==
  [status |-> "CONFIRMED", paymentMethod |-> "CASH_ON_DELIVERY", paymentStatus |-> "PENDING"]

NewOrderState ==
  [status |-> "PENDING", paymentMethod |-> "CASH_ON_DELIVERY", paymentStatus |-> "PENDING"]

\* auth.ts lines 139-144: `FH-${timestamp.slice(-6)}-${random}`, from the clock's
\* last six digits and four random hex digits.
generateOrderNumber(timestamp, random) == <<"FH", timestamp, random>>

Randoms == {"A1B2", "C3D4"}
OrderNumbers == {generateOrderNumber(t, r) : t \in 1..2, r \in Randoms}

\* Line 150-151: orders are looked up with findUnique({ where: { orderNumber } }),
\* so the column carries a unique index: an insert with a number some row has
\* is refused by the database.
orderNumberTakenMut(n) == FALSE

orderNumberTaken(n) == \E o \in 1..Len(orders) : orders[o].orderNumber = n

\* Lines 259-300: the order row and its order items are inserted, under a
\* number the generator yields (one of `numbers`); a refused insert throws.
InsertOrderWith(c, numbers) ==
  /\ call[c].pc = "create"
  /\ \E n \in numbers :
     IF orderNumberTaken(n)
     THEN /\ call' = [call EXCEPT ![c] = Finished(@, "failed", 500)]
          /\ UNCHANGED orders
     ELSE
     LET shipping == calculateShipping(call[c].subtotal)
         tax == calculateTax(call[c].subtotal + shipping)
     IN
     /\ call' = [call EXCEPT ![c].pc = "stock", ![c].idx = 1,
                             ![c].orderId = Len(orders) + 1,
                             ![c].orderItems = <<>>, ![c].subtotal = 0,
                             ![c].wrote = @ \cup {"order"}]
     /\ orders' = Append(orders,
          [orderNumber |-> n,
           userId |-> call[c].userId,
           items |-> orderItemRows(c),
           subtotal |-> call[c].subtotal,
           shipping |-> shipping,
           tax |-> tax,
           discount |-> call[c].discount,
           total |-> orderTotal(call[c].subtotal, shipping, tax, call[c].discount),
           status |-> NewOrderState.status,
           paymentMethod |-> NewOrderState.paymentMethod,
           paymentStatus |-> NewOrderState.paymentStatus,
           shippingAddressId |-> call[c].shippingId,
           billingAddressId |-> call[c].shippingId + 1])
  /\ UNCHANGED <<stockCount, inStock, price, coupon, addresses, now, cancel, nUpdates, stock0, reply, cart>>

\* The insert of a request whose number no earlier request was given: the
\* clock has moved on between two requests.
InsertOrder(c) == InsertOrderWith(c, {generateOrderNumber(c, "A1B2")})

\* Lines 302-312: one turn of the stock loop (`decrement: item.quantity`).
DecrementStock(c) ==
  /\ call[c].pc = "stock"
  /\ call[c].idx <= Len(call[c].items)
  /\ LET item == call[c].items[call[c].idx] IN
       stockCount' = decrement(stockCount, item.productId, item.quantity)
  /\ call' = [call EXCEPT ![c].idx = @ + 1, ![c].wrote = @ \cup {"product"}]
  /\ UNCHANGED <<inStock, price, coupon, addresses, orders, now, cancel, nUpdates, stock0, reply, cart>>

\* Lines 314-328: coupon.update by the code as the request spelled it, which
\* throws when no row has that code; then the order is returned.
UpdateCouponUsage(c) ==
  /\ call[c].pc = "stock"
  /\ call[c].idx > Len(call[c].items)
  /\ IF call[c].couponCode = NoCode
     THEN /\ call' = [call EXCEPT ![c] = Finished(@, "done", 0)]
          /\ UNCHANGED coupon
     ELSE IF call[c].couponCode = coupon.code
     THEN /\ coupon' = [coupon EXCEPT !.usedCount = @ + 1]
          /\ call' = [call EXCEPT ![c] =
               Finished([@ EXCEPT !.wrote = @ \cup {"coupon"}], "done", 0)]
     ELSE /\ call' = [call EXCEPT ![c] = Finished(@, "failed", 500)]
          /\ UNCHANGED coupon
  /\ UNCHANGED <<stockCount, inStock, price, addresses, orders, now, cancel, nUpdates, stock0, reply, cart>>

\* ------------------------------------------------------------ cancelOrder
OrderIds == 1..MaxCalls

\* Lines 382-388: the statuses from which cancelOrder refuses to cancel.
cancelRejectedMut(status) == status = "CANCELLED"

cancelRejected(status) == status = "CANCELLED" \/ status = "DELIVERED"

\* Lines 374-376: order.findFirst({ where: { id: orderId, userId } }) finds a row.
findFirstOrderMut(u, o) == o <= Len(orders)

findFirstOrder(u, o) == o <= Len(orders) /\ orders[o].userId = u

\* Lines 373-393: order.findFirst by id and owner, the two status guards, and
\* the read of the order items (which no operation ever changes).
CancelFind(k) ==
  /\ cancel[k].pc = "idle"
  /\ \A j \in CancelIds : j < k => cancel[j].pc # "idle"
  /\ \E u \in Users, o \in OrderIds :
       LET req == [IdleCancel EXCEPT !.userId = u, !.orderId = o] IN
       IF ~findFirstOrder(u, o)
       THEN cancel' = [cancel EXCEPT ![k] = [req EXCEPT !.pc = "failed", !.err = 404]]
       ELSE IF cancelRejected(orders[o].status)
       THEN cancel' = [cancel EXCEPT ![k] = [req EXCEPT !.pc = "failed", !.err = 400]]
       ELSE cancel' = [cancel EXCEPT ![k] =
              [req EXCEPT !.pc = "restore", !.items = orders[o].items, !.idx = 1]]
  /\ UNCHANGED <<stockCount, inStock, price, coupon, addresses, orders, now, call,
                 nUpdates, stock0, reply, cart>>

\* Lines 395-404: one turn of the restore loop (`increment: item.quantity`).
CancelRestore(k) ==
  /\ cancel[k].pc = "restore"
  /\ cancel[k].idx <= Len(cancel[k].items)
  /\ LET item == cancel[k].items[cancel[k].idx] IN
       /\ stockCount' = increment(stockCount, item.productId, item.quantity)
       /\ cancel' = [cancel EXCEPT ![k].idx = @ + 1,
                                   ![k].restored[item.productId] = @ + item.quantity]
  /\ UNCHANGED <<inStock, price, coupon, addresses, orders, now, call, nUpdates, stock0, reply, cart>>

\* Lines 406-434: the status is written and the order returned.
CancelFinishMut(k) ==
  /\ cancel[k].pc = "restore"
  /\ cancel[k].idx > Len(cancel[k].items)
  /\ orders' = [orders EXCEPT ![cancel[k].orderId].status = "CANCELLED"]
  /\ cancel' = [cancel EXCEPT ![k].pc = "done", ![k].items = <<>>, ![k].idx = 0]
  /\ coupon' = IF orders[cancel[k].orderId].discount > 0
               THEN [coupon EXCEPT !.usedCount = @ - 1] ELSE coupon
  /\ UNCHANGED <<stockCount, inStock, price, addresses, now, call, nUpdates, stock0, reply, cart>>

CancelFinish(k) ==
  /\ cancel[k].pc = "restore"
  /\ cancel[k].idx > Len(cancel[k].items)
  /\ orders' = [orders EXCEPT ![cancel[k].orderId].status = "CANCELLED"]
  /\ cancel' = [cancel EXCEPT ![k].pc = "done", ![k].items = <<>>, ![k].idx = 0]
  /\ UNCHANGED <<stockCount, inStock, price, coupon, addresses, now, call, nUpdates, stock0, reply, cart>>

\* ------------------------------------------------------------ updateOrder
RECURSIVE SumQty(_, _)
\* Total quantity of product p over a sequence of lines.
SumQty(items, p) ==
  IF items = <<>> THEN 0
  ELSE (IF Head(items).productId = p THEN Head(items).quantity ELSE 0)
       + SumQty(Tail(items), p)

\* Lines 332-370: the admin's patch; of its fields only the status is state
\* that another operation reads.  An unknown id is answered 404.
UpdateOrderMut ==
  /\ nUpdates < MaxUpdates
  /\ nUpdates' = nUpdates + 1
  /\ \E o \in OrderIds, st \in OrderStatus :
       IF o > Len(orders)
       THEN UNCHANGED <<orders, stockCount>>
       ELSE /\ orders' = [orders EXCEPT ![o].status = st]
            /\ stockCount' =
                 IF st = "CANCELLED" /\ orders[o].status # "CANCELLED"
                 THEN [p \in Products |-> stockCount[p] + SumQty(orders[o].items, p)]
                 ELSE stockCount
  /\ UNCHANGED <<inStock, price, coupon, addresses, now, call, cancel, stock0, reply, cart>>

UpdateOrder ==
  /\ nUpdates < MaxUpdates
  /\ nUpdates' = nUpdates + 1
  /\ \E o \in OrderIds, st \in OrderStatus :
       IF o > Len(orders)
       THEN UNCHANGED orders
       ELSE orders' = [orders EXCEPT ![o].status = st]
  /\ UNCHANGED <<stockCount, inStock, price, coupon, addresses, now, call, cancel, stock0, reply, cart>>

\* ------------------------------------------------------------------ clock
Tick ==
  /\ now < MaxNow
  /\ now' = now + 1
  /\ UNCHANGED <<stockCount, inStock, price, coupon, addresses, orders, call, cancel,
                 nUpdates, stock0, reply, cart>>

\* ----------------------------------------------------------- address book
\* user.service.ts lines 208-214 and 246-252: address.findFirst by id and userId.
findFirstAddress(u, a) ==
  a <= Len(addresses) /\ ~addresses[a].deleted /\ addresses[a].userId = u

\* An order row holds the address id in shippingAddressId or billingAddressId.
Referenced(a) ==
  \E o \in 1..Len(orders) :
    orders[o].shippingAddressId = a \/ orders[o].billingAddressId = a

\* user.service.ts lines 207-242: updateAddress(userId, addressId, { street }).
UpdateAddress ==
  /\ nUpdates < MaxUpdates
  /\ nUpdates' = nUpdates + 1
  /\ \E u \in Users, a \in AddressIds, street \in Streets :
       IF ~findFirstAddress(u, a)
       THEN UNCHANGED addresses
       ELSE addresses' = [addresses EXCEPT ![a].street = street]
  /\ UNCHANGED <<stockCount, inStock, price, coupon, orders, now, call, cancel, stock0, reply, cart>>

\* user.service.ts lines 245-259: deleteAddress(userId, addressId).  Whether
\* the database lets a row go that an order refers to depends on the foreign
\* key of the order table: the row is removed, or the delete is refused.
DeleteAddress ==
  /\ nUpdates < MaxUpdates
  /\ nUpdates' = nUpdates + 1
  /\ \E u \in Users, a \in AddressIds, refused \in BOOLEAN :
       IF ~findFirstAddress(u, a) \/ (refused /\ Referenced(a))
       THEN UNCHANGED addresses
       ELSE /\ ~refused
            /\ addresses' = [addresses EXCEPT ![a].deleted = TRUE]
  /\ UNCHANGED <<stockCount, inStock, price, coupon, orders, now, call, cancel, stock0, reply, cart>>

\* ---------------------------------------------------------- reading orders
\* The role column of the user rows that authenticate puts on the request
\* (part_008 lines 33-52); createUser and the seed write 'USER' and
\* 'SUPER_ADMIN' (user.service.ts line 82, common.types.ts line 55).
Readers == Users \cup {"admin1"}
StoredRole == [u \in Readers |-> IF u \in Users THEN "USER" ELSE "SUPER_ADMIN"]

\* part_009 lines 36 and 49: `order.userId !== ensureUser(req) &&
\* req.user?.role === 'user'`.
accessDenied(o, u) == orders[o].userId # u /\ StoredRole[u] = "user"

\* The controller's answer for reader u once the service has found order o
\* (o = 0: the service threw 'Order not found').
OrderReply(op, u, o) ==
  IF o = 0
  THEN [op |-> op, userId |-> u, status |-> 404, message |-> "Order not found", orderId |-> 0]
  ELSE IF accessDenied(o, u)
  THEN [op |-> op, userId |-> u, status |-> 403, message |-> "Access denied", orderId |-> o]
  ELSE [op |-> op, userId |-> u, status |-> 200, message |-> "Order retrieved", orderId |-> o]

\* part_009 lines 31-41 with order.service.ts lines 117-147.
GetOrderById ==
  /\ \E u \in Readers, id \in OrderIds :
       reply' = OrderReply("getOrderById", u, IF id <= Len(orders) THEN id ELSE 0)
  /\ UNCHANGED <<stockCount, inStock, price, coupon, addresses, orders, now, call, cancel,
                 nUpdates, stock0, cart>>

\* part_009 lines 44-54 with order.service.ts lines 150-181.
GetOrderByNumber ==
  /\ \E u \in Readers, n \in OrderNumbers :
       LET found == {o \in 1..Len(orders) : orders[o].orderNumber = n}
       IN reply' = OrderReply("getOrderByNumber", u,
                              IF found = {} THEN 0 ELSE CHOOSE o \in found : TRUE)
  /\ UNCHANGED <<stockCount, inStock, price, coupon, addresses, orders, now, call, cancel,
                 nUpdates, stock0, cart>>

\* ------------------------------------------------------------------ cart
\* cart.service.ts: addToCart, updateCartItem, removeFromCart.  A cart item is
\* a row [userId, productId, selectedColor, selectedSize, quantity, deleted];
\* its id is its position in `cart`, and a deleted row keeps its position.
\* Each request is served as one step.
Undefined == "undefined"
Null == "null"
Colors == {"red"}
Sizes == {"L"}

\* `selectedColor || null`: a field the request leaves out is stored as null
\* (Joi.string() refuses the empty string, so any other value is kept).
orNull(v) == IF v = Undefined THEN Null ELSE v

LiveCart == {i \in 1..Len(cart) : ~cart[i].deleted}

CartReply(op, u, status, message) ==
  [op |-> op, userId |-> u, status |-> status, message |-> message, orderId |-> 0]

\* prisma.cartItem.findFirst({ where: { userId, productId, selectedColor,
\* selectedSize } }): the live rows that match.
findFirstCartItem(u, p, color, size) ==
  {i \in LiveCart : /\ cart[i].userId = u
                    /\ cart[i].productId = p
                    /\ cart[i].selectedColor = color
                    /\ cart[i].selectedSize = size}

\* cart.service.ts lines 50-136, controller part_010 lines 357-360.
AddToCart ==
  /\ \E u \in Users, p \in ProductIds, quantity \in 1..(MaxQty + 1),
        selectedColor \in {Undefined} \cup Colors, selectedSize \in {Undefined} \cup Sizes :
       LET existing == findFirstCartItem(u, p, orNull(selectedColor), orNull(selectedSize))
       IN IF p \notin Products
          THEN /\ reply' = CartReply("addToCart", u, 404, "Product not found")
               /\ cart' = cart
          ELSE IF ~inStock[p]
          THEN /\ reply' = CartReply("addToCart", u, 400, "Product is out of stock")
               /\ cart' = cart
          ELSE IF existing # {}
          THEN \E i \in existing :
                 LET newQuantity == cart[i].quantity + quantity
                 IN IF newQuantity > stockCount[p]
                    THEN /\ reply' = CartReply("addToCart", u, 400, "Insufficient stock")
                         /\ cart' = cart
                    ELSE /\ reply' = CartReply("addToCart", u, 201, "Item added to cart")
                         /\ cart' = [cart EXCEPT ![i].quantity = newQuantity]
          ELSE IF quantity > stockCount[p]
          THEN /\ reply' = CartReply("addToCart", u, 400, "Insufficient stock")
               /\ cart' = cart
          ELSE /\ Len(cart) < MaxCartItems
               /\ reply' = CartReply("addToCart", u, 201, "Item added to cart")
               /\ cart' = Append(cart, [userId |-> u, productId |-> p,
                                        selectedColor |-> orNull(selectedColor),
                                        selectedSize |-> orNull(selectedSize),
                                        quantity |-> quantity, deleted |-> FALSE])
  /\ UNCHANGED <<stockCount, inStock, price, coupon, addresses, orders, now, call, cancel,
                 nUpdates, stock0>>

\* cart.service.ts lines 139-184, controller part_010 lines 363-375.  The
\* update writes the variant fields of the request over the row's without a
\* look at the user's other rows.  No table definition is among the sources:
\* when the written variant is the one of another row of the user, the update
\* either goes through or is refused by the table (answer 500).
UpdateCartItem ==
  /\ \E u \in Users, cartItemId \in 1..MaxCartItems, quantity \in 0..(MaxQty + 1),
        selectedColor \in {Undefined} \cup Colors, selectedSize \in {Undefined} \cup Sizes :
       IF ~(cartItemId \in LiveCart /\ cart[cartItemId].userId = u)
       THEN /\ reply' = CartReply("updateCartItem", u, 404, "Cart item not found")
            /\ cart' = cart
       ELSE IF quantity <= 0
       THEN /\ reply' = CartReply("updateCartItem", u, 200, "Item removed from cart")
            /\ cart' = [cart EXCEPT ![cartItemId].deleted = TRUE]
       ELSE IF quantity > stockCount[cart[cartItemId].productId]
       THEN /\ reply' = CartReply("updateCartItem", u, 400, "Insufficient stock")
            /\ cart' = cart
       ELSE LET others == findFirstCartItem(u, cart[cartItemId].productId,
                                            orNull(selectedColor), orNull(selectedSize))
                            \ {cartItemId}
            IN \/ /\ reply' = CartReply("updateCartItem", u, 200, "Cart item updated")
                  /\ cart' = [cart EXCEPT ![cartItemId].quantity = quantity,
                                          ![cartItemId].selectedColor = orNull(selectedColor),
                                          ![cartItemId].selectedSize = orNull(selectedSize)]
               \/ /\ others # {}
                  /\ reply' = CartReply("updateCartItem", u, 500, "Internal server error")
                  /\ cart' = cart
  /\ UNCHANGED <<stockCount, inStock, price, coupon, addresses, orders, now, call, cancel,
                 nUpdates, stock0>>

\* cart.service.ts lines 187-201, controller part_010 lines 378-382.
RemoveFromCart ==
  /\ \E u \in Users, cartItemId \in 1..MaxCartItems :
       IF ~(cartItemId \in LiveCart /\ cart[cartItemId].userId = u)
       THEN /\ reply' = CartReply("removeFromCart", u, 404, "Cart item not found")
            /\ cart' = cart
       ELSE /\ reply' = CartReply("removeFromCart", u, 200, "Item removed from cart")
            /\ cart' = [cart EXCEPT ![cartItemId].deleted = TRUE]
  /\ UNCHANGED <<stockCount, inStock, price, coupon, addresses, orders, now, call, cancel,
                 nUpdates, stock0>>

\* ---------------------------------------------------------- updateProduct
\* UpdateProductRequest: every field is optional; a field is the empty set when
\* the request leaves it out.  Joi: price positive, stockCount an integer >= 0.
NewPrices == {1000, 5000}
ProductPatches ==
  [price : {{}} \cup {{x} : x \in NewPrices},
   stockCount : {{}} \cup {{n} : n \in 0..InitStock}] \ {[price |-> {}, stockCount |-> {}]}

TheOne(S) == CHOOSE x \in S : TRUE

\* product.service.ts lines 427-470: 404 for an unknown product; otherwise the
\* given fields are written, and inStock with them when stockCount is given.
UpdateProduct ==
  /\ nUpdates < MaxUpdates
  /\ nUpdates' = nUpdates + 1
  /\ \E p \in ProductIds, data \in ProductPatches :
       IF p \notin Products
       THEN UNCHANGED <<price, stockCount, inStock>>
       ELSE /\ price' = IF data.price # {}
                        THEN [price EXCEPT ![p] = TheOne(data.price)] ELSE price
            /\ stockCount' = IF data.stockCount # {}
                             THEN [stockCount EXCEPT ![p] = TheOne(data.stockCount)]
                             ELSE stockCount
            /\ inStock' = IF data.stockCount # {}
                          THEN [inStock EXCEPT ![p] = TheOne(data.stockCount) > 0]
                          ELSE inStock
  /\ UNCHANGED <<coupon, addresses, orders, now, call, cancel, stock0, reply, cart>>

\* --------------------------------------------------------- specifications
\* Spec: concurrent createOrder requests of up to MaxItems lines, no coupon.
Next ==
  \/ \E c \in CallIds : CreateAddresses(c, Customers, ItemLists, {NoCode})
  \/ \E c \in CallIds : ValidateItem(c)
  \/ \E c \in CallIds : ApplyCoupon(c)
  \/ \E c \in CallIds : InsertOrder(c)
  \/ \E c \in CallIds : DecrementStock(c)
  \/ \E c \in CallIds : UpdateCouponUsage(c)

Spec == Init /\ [][Next]_vars

\* SpecCoupon: concurrent one-line createOrder requests that may name a coupon,
\* over every row of CouponRows, while the clock advances.
InitCoupon == InitWith({[p \in Products |-> InitStock]}, CouponRows)

NextCoupon ==
  \/ \E c \in CallIds : CreateAddresses(c, Customers, SingleLines, RequestCodes)
  \/ \E c \in CallIds : ValidateItem(c)
  \/ \E c \in CallIds : ApplyCoupon(c)
  \/ \E c \in CallIds : InsertOrder(c)
  \/ \E c \in CallIds : DecrementStock(c)
  \/ \E c \in CallIds : UpdateCouponUsage(c)
  \/ Tick

SpecCoupon == InitCoupon /\ [][NextCoupon]_vars

\* SpecCancel: createOrder requests served one after the other, interleaved
\* with cancelOrder requests of any user and the admin's updateOrder.
NoCallRunning == \A c \in CallIds : call[c].pc \in {"idle", "done", "failed"}

NextCancel ==
  \/ \E c \in CallIds :
       NoCallRunning /\ CreateAddresses(c, Customers, ItemLists, {NoCode, StoredCode})
  \/ \E c \in CallIds : ValidateItem(c)
  \/ \E c \in CallIds : ApplyCoupon(c)
  \/ \E c \in CallIds : InsertOrder(c)
  \/ \E c \in CallIds : DecrementStock(c)
  \/ \E c \in CallIds : UpdateCouponUsage(c)
  \/ \E k \in CancelIds : CancelFind(k)
  \/ \E k \in CancelIds : CancelRestore(k)
  \/ \E k \in CancelIds : CancelFinish(k)
  \/ UpdateOrder

SpecCancel == Init /\ [][NextCancel]_vars

\* SpecRace: concurrent createOrder requests without a coupon, interleaved with
\* cancelOrder requests of any user.
NextRace ==
  \/ \E c \in CallIds : CreateAddresses(c, Customers, ItemLists, {NoCode})
  \/ \E c \in CallIds : ValidateItem(c)
  \/ \E c \in CallIds : ApplyCoupon(c)
  \/ \E c \in CallIds : InsertOrder(c)
  \/ \E c \in CallIds : DecrementStock(c)
  \/ \E c \in CallIds : UpdateCouponUsage(c)
  \/ \E k \in CancelIds : CancelFind(k)
  \/ \E k \in CancelIds : CancelRestore(k)
  \/ \E k \in CancelIds : CancelFinish(k)

SpecRace == Init /\ [][NextRace]_vars

\* SpecCatalog: createOrder requests served one after the other while the admin
\* edits a product's price or stock.
NextCatalog ==
  \/ \E c \in CallIds :
       NoCallRunning /\ CreateAddresses(c, Customers, ItemLists, {NoCode, StoredCode})
  \/ \E c \in CallIds : ValidateItem(c)
  \/ \E c \in CallIds : ApplyCoupon(c)
  \/ \E c \in CallIds : InsertOrder(c)
  \/ \E c \in CallIds : DecrementStock(c)
  \/ \E c \in CallIds : UpdateCouponUsage(c)
  \/ UpdateProduct

SpecCatalog == Init /\ [][NextCatalog]_vars

\* SpecAddress: createOrder requests served one after the other; between them
\* any user edits or deletes an address through the address book.
NextAddress ==
  \/ \E c \in CallIds :
       NoCallRunning /\ CreateAddresses(c, Users, ItemLists, {NoCode})
  \/ \E c \in CallIds : ValidateItem(c)
  \/ \E c \in CallIds : ApplyCoupon(c)
  \/ \E c \in CallIds : InsertOrder(c)
  \/ \E c \in CallIds : DecrementStock(c)
  \/ \E c \in CallIds : UpdateCouponUsage(c)
  \/ NoCallRunning /\ UpdateAddress
  \/ NoCallRunning /\ DeleteAddress

SpecAddress == Init /\ [][NextAddress]_vars

\* SpecNumber: concurrent createOrder requests of one line whose order numbers
\* may coincide.
NextNumber ==
  \/ \E c \in CallIds : CreateAddresses(c, Customers, SingleLines, {NoCode})
  \/ \E c \in CallIds : ValidateItem(c)
  \/ \E c \in CallIds : ApplyCoupon(c)
  \/ \E c \in CallIds : InsertOrderWith(c, OrderNumbers)
  \/ \E c \in CallIds : DecrementStock(c)
  \/ \E c \in CallIds : UpdateCouponUsage(c)

SpecNumber == Init /\ [][NextNumber]_vars

\* SpecRepeat: createOrder requests of one line served one after the other,
\* with one cancelOrder request more than the other specifications serve, so
\* that an order can be cancelled twice, and the admin's updateOrder.
RepeatCancelIds == 1..(MaxCancels + 1)

InitRepeat ==
  /\ stockCount = [p \in Products |-> InitStock]
  /\ stock0 = stockCount
  /\ inStock = [p \in Products |-> TRUE]
  /\ price = [p \in Products |-> IF p = "p1" THEN 1250 ELSE 2500]
  /\ coupon = PlainCoupon
  /\ addresses = <<>>
  /\ orders = <<>>
  /\ now = 2
  /\ call = [c \in CallIds |-> IdleCall]
  /\ cancel = [k \in RepeatCancelIds |-> IdleCancel]
  /\ nUpdates = 0
  /\ reply = NoReply
  /\ cart = <<>>

NextRepeat ==
  \/ \E c \in CallIds :
       NoCallRunning /\ CreateAddresses(c, Customers, SingleLines, {NoCode})
  \/ \E c \in CallIds : ValidateItem(c)
  \/ \E c \in CallIds : ApplyCoupon(c)
  \/ \E c \in CallIds : InsertOrder(c)
  \/ \E c \in CallIds : DecrementStock(c)
  \/ \E c \in CallIds : UpdateCouponUsage(c)
  \/ \E k \in RepeatCancelIds : CancelFind(k)
  \/ \E k \in RepeatCancelIds : CancelRestore(k)
  \/ \E k \in RepeatCancelIds : CancelFinish(k)
  \/ UpdateOrder

SpecRepeat == InitRepeat /\ [][NextRepeat]_vars

\* SpecRead: createOrder requests of one line by either user, served one after
\* the other, and reads of an order by id or by number by any signed-in user.
NextRead ==
  \/ \E c \in CallIds :
       NoCallRunning /\ CreateAddresses(c, Users, SingleLines, {NoCode})
  \/ \E c \in CallIds : ValidateItem(c)
  \/ \E c \in CallIds : ApplyCoupon(c)
  \/ \E c \in CallIds : InsertOrder(c)
  \/ \E c \in CallIds : DecrementStock(c)
  \/ \E c \in CallIds : UpdateCouponUsage(c)
  \/ GetOrderById
  \/ GetOrderByNumber

SpecRead == Init /\ [][NextRead]_vars

\* SpecCart: cart requests served one at a time, the stock left alone.
NextCart ==
  \/ AddToCart
  \/ UpdateCartItem
  \/ RemoveFromCart

SpecCart == Init /\ [][NextCart]_vars

\* SpecPricing: createOrder requests of one line served one after the other,
\* over products priced around the shipping tiers and coupons of every shape.
\* Prices are multiples of 0.10, so a 10% discount is a whole number of cents.
PriceSet == {10, 2490, 2500, 4990, 5000}

PricingCoupons ==
  { [PlainCoupon EXCEPT !.usageLimit = 0],
    [PlainCoupon EXCEPT !.usageLimit = 0, !.minimumAmount = 0, !.maximumDiscount = 300],
    [PlainCoupon EXCEPT !.usageLimit = 0, !.minimumAmount = 0, !.maximumDiscount = 300,
                        !.type = "fixed", !.value = 500] }

InitPricing ==
  /\ stockCount = [p \in Products |-> InitStock]
  /\ stock0 = stockCount
  /\ inStock = [p \in Products |-> TRUE]
  /\ price \in [Products -> PriceSet]
  /\ coupon \in PricingCoupons
  /\ addresses = <<>>
  /\ orders = <<>>
  /\ now = 2
  /\ call = [c \in CallIds |-> IdleCall]
  /\ cancel = [k \in CancelIds |-> IdleCancel]
  /\ nUpdates = 0
  /\ reply = NoReply
  /\ cart = <<>>

NextPricing ==
  \/ \E c \in CallIds :
       NoCallRunning /\ CreateAddresses(c, Customers, SingleLines, {NoCode, StoredCode})
  \/ \E c \in CallIds : ValidateItem(c)
  \/ \E c \in CallIds : ApplyCoupon(c)
  \/ \E c \in CallIds : InsertOrder(c)
  \/ \E c \in CallIds : DecrementStock(c)
  \/ \E c \in CallIds : UpdateCouponUsage(c)

SpecPricing == InitPricing /\ [][NextPricing]_vars

\* ================================================================ claims
\* Quantity of product p in order o / whether o names p on at most one line.
OrderQty(o, p) == SumQty(orders[o].items, p)

OneLinePerProduct(o) ==
  \A i, j \in 1..Len(orders[o].items) :
    orders[o].items[i].productId = orders[o].items[j].productId => i = j

RECURSIVE SoldUpTo(_, _)
\* Quantity of p over the createOrder calls 1..n that returned their order and
\* named every product on one line only.
SoldUpTo(n, p) ==
  IF n = 0 THEN 0
  ELSE (IF call[n].pc = "done" /\ OneLinePerProduct(call[n].orderId)
        THEN OrderQty(call[n].orderId, p) ELSE 0)
       + SoldUpTo(n - 1, p)

\* C1: under any interleaving of createOrder calls (no cancellation, no stock
\* edit) the quantities of a product over the calls that succeed sum to at
\* most its stockCount N at the start; two orders for the last units do not
\* both succeed.  (Counted over requests that name a product once; a request
\* that repeats a product is C2's case.)
C1_NoOversell == \A p \in Products : SoldUpTo(MaxCalls, p) <= stock0[p]

\* C2: in every reachable state every product's stockCount is >= 0.
C2_StockNeverNegative == \A p \in Products : stockCount[p] >= 0

\* C3: when a createOrder call ends, either the order exists, its stock is
\* decremented and the applied coupon's usedCount incremented, or none of
\* these three writes has happened.
C3_AllOrNothing ==
  \A c \in CallIds :
    call[c].pc \in {"done", "failed"} =>
      LET w == call[c].wrote \cap {"order", "product", "coupon"} IN
        \/ w = {}
        \/ /\ {"order", "product"} \subseteq w
           /\ call[c].applied => "coupon" \in w

\* C4: a createOrder that fails at the product lookup (404) or at the stock
\* check (400) has written to no store.
C4_NoWriteBeforeValidationFailure ==
  \A c \in CallIds :
    (call[c].pc = "failed" /\ call[c].err \in {404, 400}) => call[c].wrote = {}

\* The line a call is about to validate exists, is flagged inStock and has
\* stockCount >= quantity.
LineAccepted(c) ==
  LET item == call[c].items[call[c].idx] IN
    IF item.productId \in Products
    THEN inStock[item.productId] /\ stockCount[item.productId] >= item.quantity
    ELSE FALSE

C5_StockCheckStep ==
  \A c \in CallIds :
    (call[c].pc = "validate" /\ call[c].idx <= Len(call[c].items) /\ call'[c] # call[c]) =>
      IF LineAccepted(c)
      THEN /\ call'[c].pc = "validate"
           /\ call'[c].idx = call[c].idx + 1
           /\ Len(call'[c].orderItems) = Len(call[c].orderItems) + 1
      ELSE /\ call'[c].pc = "failed"
           /\ call'[c].err =
                IF call[c].items[call[c].idx].productId \in Products THEN 400 ELSE 404
           /\ call'[c].orderId = 0

\* C5: the validation loop accepts a line exactly when the product exists, is
\* flagged inStock and has stockCount >= quantity (equality accepted); a missing
\* product fails the call with 404 and any other refusal with 400.
C5_StockCheck == [][C5_StockCheckStep]_vars

\* C5 witness: a first order has taken p1 from its full stock to 0 (inStock
\* still set), and the next call, with p2 fully stocked, was refused with 400.
C5_Witness ==
  /\ stockCount["p1"] = 0 /\ inStock["p1"] /\ stock0["p1"] > 0
  /\ stockCount["p2"] = stock0["p2"] /\ stock0["p2"] > 0
  /\ call[1].pc = "done"
  /\ call[2].pc = "failed" /\ call[2].err = 400

\* C6: a createOrder whose couponCode is not applicable still succeeds and
\* returns a persisted order with discount 0: a call that passed the product
\* validation is never failed because of its coupon code.
C6_InvalidCouponNeverRejects ==
  \A c \in CallIds :
    ( /\ call[c].pc \in {"done", "failed"}
      /\ call[c].couponCode # NoCode
      /\ ~call[c].applied
      /\ call[c].err \notin {404, 400} ) =>
        /\ call[c].pc = "done"
        /\ orders[call[c].orderId].discount = 0

\* C7: usedCount grows by exactly 1 per successful createOrder that applied
\* the coupon and by nothing else: it counts those calls.
C7_UsedCountCountsApplied ==
  coupon.usedCount = Cardinality({c \in CallIds : call[c].pc = "done" /\ call[c].applied})

\* C8: for a coupon with usageLimit L neither usedCount nor the number of
\* persisted orders that carry its discount exceeds L.
C8_UsageLimitRespected ==
  coupon.usageLimit # 0 =>
    /\ coupon.usedCount <= coupon.usageLimit
    /\ Cardinality({o \in 1..Len(orders) : orders[o].discount > 0}) <= coupon.usageLimit

\* One step of a cancelOrder past its guards: the next item's quantity goes
\* back to its product and to nothing else; after the last item the status is
\* written, all the order's quantities having been restored.
C9_CancelStep ==
  \A k \in CancelIds :
    (cancel[k].pc = "restore" /\ cancel'[k] # cancel[k]) =>
      IF cancel[k].idx <= Len(cancel[k].items)
      THEN LET item == orders[cancel[k].orderId].items[cancel[k].idx] IN
             /\ stockCount' =
                  [stockCount EXCEPT ![item.productId] = @ + item.quantity]
             /\ orders' = orders
      ELSE /\ \A p \in Products : cancel[k].restored[p] = OrderQty(cancel[k].orderId, p)
           /\ stockCount' = stockCount
           /\ orders'[cancel[k].orderId].status = "CANCELLED"
           /\ cancel'[k].pc = "done"

\* C9: a successful cancelOrder adds to the stockCount of each order item's
\* product exactly that item's quantity, changes no other product's stock,
\* and sets the order's status to CANCELLED.
C9_CancelRestoresStock == [][C9_CancelStep]_vars

\* C9 witness: a cancel of an order with two lines on different products
\* has returned.
C9_Witness ==
  \E k \in CancelIds :
    /\ cancel[k].pc = "done"
    /\ cancel[k].restored["p1"] > 0 /\ cancel[k].restored["p2"] > 0
    /\ orders[cancel[k].orderId].status = "CANCELLED"

\* The first step of a cancelOrder that finds its order DELIVERED or CANCELLED
\* fails with 400 and writes nothing; a failed cancelOrder takes no further step.
C10_CancelStep ==
  \A k \in CancelIds :
    /\ (cancel[k].pc = "idle" /\ cancel'[k].pc # "idle") =>
         LET o == cancel'[k].orderId
             u == cancel'[k].userId
         IN (o <= Len(orders) /\ orders[o].userId = u
             /\ orders[o].status \in {"DELIVERED", "CANCELLED"}) =>
               /\ cancel'[k].pc = "failed"
               /\ cancel'[k].err = 400
               /\ stockCount' = stockCount
               /\ orders' = orders
    /\ cancel[k].pc = "failed" => cancel'[k] = cancel[k]

\* C10: cancelOrder by the owner of an order whose status is DELIVERED or
\* CANCELLED fails with 400 (InvalidState) and leaves every product's
\* stockCount and the order's status unchanged.
C10_TerminalCancelRejected == [][C10_CancelStep]_vars

\* C10 witness: the owner's cancel of a DELIVERED order was refused with 400.
C10_Witness ==
  \E k \in CancelIds :
    /\ cancel[k].pc = "failed" /\ cancel[k].err = 400
    /\ cancel[k].orderId <= Len(orders)
    /\ orders[cancel[k].orderId].status = "DELIVERED"

\* The first step of a cancelOrder whose caller does not own the order fails
\* with 404 and writes nothing; only the owner's cancelOrder goes on.
C11_CancelStep ==
  \A k \in CancelIds :
    /\ (cancel[k].pc = "idle" /\ cancel'[k].pc # "idle") =>
         LET o == cancel'[k].orderId
             u == cancel'[k].userId
         IN (o <= Len(orders) /\ orders[o].userId # u) =>
               /\ cancel'[k].pc = "failed"
               /\ cancel'[k].err = 404
               /\ stockCount' = stockCount
               /\ orders' = orders
    /\ cancel'[k].pc \in {"restore", "done"} =>
         orders[cancel'[k].orderId].userId = cancel'[k].userId

\* C11: cancelOrder(userId, orderId) succeeds only for the order's owner; for
\* every other caller it fails with NotFound (404) and changes neither any
\* stockCount nor the order's status.
C11_OnlyOwnerCancels == [][C11_CancelStep]_vars

\* C11 witness: a user who does not own an existing, cancellable order asked to
\* cancel it and got 404.
C11_Witness ==
  \E k \in CancelIds :
    /\ cancel[k].pc = "failed" /\ cancel[k].err = 404
    /\ cancel[k].orderId <= Len(orders)
    /\ orders[cancel[k].orderId].userId # cancel[k].userId
    /\ orders[cancel[k].orderId].status = "PENDING"

TerminalStatus == {"DELIVERED", "CANCELLED", "REFUNDED"}

\* C12: once an order's status is DELIVERED, CANCELLED or REFUNDED it never
\* changes again, whatever updateOrder and cancelOrder calls follow.
C12_TerminalStatusFinal ==
  [][\A o \in 1..Len(orders) :
       orders[o].status \in TerminalStatus => orders'[o].status = orders[o].status]_vars

\* A createOrder call that got as far as inserting its order and has returned.
PastValidation(c) == call[c].pc \in {"done", "failed"} /\ call[c].orderId > 0

\* C13: coupon codes are case-insensitive throughout createOrder: two calls
\* whose codes differ only in letter case end the same way (both succeed or
\* both fail) and both count, or both do not count, in usedCount.
C13_CodeCaseInsensitive ==
  \A c, d \in CallIds :
    ( /\ PastValidation(c) /\ PastValidation(d)
      /\ call[c].couponCode # NoCode
      /\ ToUpperCase(call[c].couponCode) = ToUpperCase(call[d].couponCode) )
    => /\ call[c].pc = call[d].pc
       /\ ("coupon" \in call[c].wrote) <=> ("coupon" \in call[d].wrote)

\* The condition under which a coupon is usable, as the specification lists it.
CouponUsable(code, amount) ==
  /\ ToUpperCase(code) = coupon.code
  /\ coupon.isActive
  /\ coupon.validFrom <= now /\ now <= coupon.validUntil
  /\ coupon.minimumAmount # 0 => amount >= coupon.minimumAmount
  /\ coupon.usageLimit # 0 => coupon.usedCount < coupon.usageLimit

C14_CouponStep ==
  \A c \in CallIds :
    (call[c].pc = "validate" /\ call[c].idx > Len(call[c].items) /\ call'[c] # call[c]) =>
      /\ call'[c].pc = "create"
      /\ call'[c].applied <=>
           (call[c].couponCode # NoCode /\ CouponUsable(call[c].couponCode, call[c].subtotal))

\* C14: validateCoupon(code, amount) gives the coupon exactly when a coupon with
\* the upper-cased code exists, is active, validFrom <= now <= validUntil (both
\* ends included), amount >= minimumAmount when one is set and usedCount <
\* usageLimit when one is set; in every other case it gives null and no error.
C14_ValidateCoupon == [][C14_CouponStep]_vars

\* C14 witness: a coupon was accepted on the last instant of its window for an
\* amount equal to its minimum, and another call's code was looked up and refused.
C14_Witness ==
  \E c, d \in CallIds :
    /\ call[c].pc = "create" /\ call[c].applied
    /\ now = coupon.validUntil
    /\ coupon.minimumAmount # 0 /\ call[c].subtotal = coupon.minimumAmount
    /\ PastValidation(d) /\ call[d].couponCode # NoCode /\ ~call[d].applied

RECURSIVE SumPrice(_)
SumPrice(items) ==
  IF items = <<>> THEN 0
  ELSE items[1].price * items[1].quantity + SumPrice(Tail(items))

\* C15: every persisted order has total = subtotal + shipping + tax - discount,
\* and its subtotal is the sum over its items of stored unit price * quantity.
C15_TotalsAddUp ==
  \A o \in 1..Len(orders) :
    /\ orders[o].total =
         orders[o].subtotal + orders[o].shipping + orders[o].tax - orders[o].discount
    /\ orders[o].subtotal = SumPrice(orders[o].items)

\* C15 witness: a persisted order of two lines with a coupon discount.
C15_Witness ==
  \E o \in 1..Len(orders) :
    /\ Len(orders[o].items) = 2
    /\ orders[o].discount > 0
    /\ orders[o].shipping > 0

\* C16: every persisted order has subtotal, shipping, tax, discount and total
\* each >= 0, whatever the cart and the coupon, a fixed-amount coupon larger
\* than the subtotal included.
C16_AmountsNonNegative ==
  \A o \in 1..Len(orders) :
    /\ orders[o].subtotal >= 0
    /\ orders[o].shipping >= 0
    /\ orders[o].tax >= 0
    /\ orders[o].discount >= 0
    /\ orders[o].total >= 0

\* C17: in every reachable state, for every product, inStock holds exactly
\* when stockCount > 0; createOrder's decrements and cancelOrder's restores
\* included.
C17_InStockMatchesCount ==
  \A p \in Products : inStock[p] <=> stockCount[p] > 0

C18_PriceStep ==
  /\ \A o \in 1..Len(orders) :
       /\ orders'[o].items = orders[o].items
       /\ orders'[o].subtotal = orders[o].subtotal
       /\ orders'[o].tax = orders[o].tax
       /\ orders'[o].discount = orders[o].discount
       /\ orders'[o].total = orders[o].total
  /\ \A c \in CallIds :
       /\ (call[c].pc = "validate" /\ Len(call'[c].orderItems) = Len(call[c].orderItems) + 1) =>
            LET line == call'[c].orderItems[Len(call'[c].orderItems)]
            IN line.price = price[line.productId]
       /\ (call[c].pc = "create" /\ call'[c].pc = "stock") =>
            orders'[call'[c].orderId].items = call[c].orderItems

\* C18: the unit price stored on an order item is the product's price at the
\* moment createOrder validated that item, and a later updateProduct that
\* changes the price changes neither the item's price nor the order's
\* subtotal, tax, discount or total.
C18_PriceFrozen == [][C18_PriceStep]_vars

\* C18 witness: the price of a product was changed after an order for it was
\* persisted, and the order still carries the price it was validated at.
C18_Witness ==
  \E o \in 1..Len(orders) : \E i \in 1..Len(orders[o].items) :
    /\ nUpdates > 0
    /\ orders[o].items[i].price # price[orders[o].items[i].productId]
    /\ orders[o].subtotal = SumPrice(orders[o].items)

\* C19: the shipping and billing address records of an order are fresh records
\* created by createOrder, and no later updateAddress or deleteAddress of the
\* user changes or removes an address record an existing order refers to.
C19_OrderAddressesStable ==
  [][\A o \in 1..Len(orders) :
       /\ addresses'[orders[o].shippingAddressId] = addresses[orders[o].shippingAddressId]
       /\ addresses'[orders[o].billingAddressId] = addresses[orders[o].billingAddressId]]_vars

RECURSIVE TakenUpTo(_, _)
\* Quantity of p that the createOrder calls 1..n have taken: the lines a
\* running stock loop has passed, the whole order once the call has returned.
TakenUpTo(n, p) ==
  IF n = 0 THEN 0
  ELSE (IF call[n].pc = "stock"
        THEN SumQty(SubSeq(call[n].items, 1, call[n].idx - 1), p)
        ELSE IF call[n].pc = "done" THEN OrderQty(call[n].orderId, p)
        ELSE 0)
       + TakenUpTo(n - 1, p)

RECURSIVE RestoredUpTo(_, _)
\* Quantity of p that the cancelOrder calls 1..n have given back.
RestoredUpTo(n, p) ==
  IF n = 0 THEN 0
  ELSE (IF cancel[n].pc = "restore"
        THEN SumQty(SubSeq(cancel[n].items, 1, cancel[n].idx - 1), p)
        ELSE IF cancel[n].pc = "done" THEN OrderQty(cancel[n].orderId, p)
        ELSE 0)
       + RestoredUpTo(n - 1, p)

\* C20: stock is changed by atomic relative deltas, so under any interleaving
\* of createOrder and cancelOrder calls no update is lost: stockCount is the
\* initial stockCount minus the quantities taken by the orders plus the
\* quantities restored by the cancellations, at every point and so at the end.
C20_NoLostUpdate ==
  \A p \in Products :
    stockCount[p] = stock0[p] - TakenUpTo(MaxCalls, p) + RestoredUpTo(MaxCancels, p)

\* C20 witness: a cancelOrder has given back a product that a createOrder
\* running at the same time has taken, and a second order for it has returned.
C20_Witness ==
  \E c, d \in CallIds, k \in CancelIds, p \in Products :
    /\ call[c].pc = "stock" /\ call[c].idx > 1 /\ call[c].items[1].productId = p
    /\ cancel[k].pc = "restore" /\ cancel[k].idx > 1 /\ cancel[k].items[1].productId = p
    /\ call[d].pc = "done" /\ OrderQty(call[d].orderId, p) > 0

\* C21: shipping is a function of the pre-discount subtotal only: 0 when
\* subtotal >= 50.00, 5.99 when 25.00 <= subtotal < 50.00, 9.99 when
\* subtotal < 25.00.
C21_ShippingTiers ==
  \A o \in 1..Len(orders) :
    /\ orders[o].subtotal >= 5000 => orders[o].shipping = 0
    /\ (2500 <= orders[o].subtotal /\ orders[o].subtotal < 5000) => orders[o].shipping = 599
    /\ orders[o].subtotal < 2500 => orders[o].shipping = 999

\* C21 witness: an order at exactly 50.00 ships free, and a discounted order at
\* exactly 25.00 pays 5.99 although it costs less than 25.00 after the discount.
C21_Witness ==
  \E o, q \in 1..Len(orders) :
    /\ orders[o].subtotal = 5000 /\ orders[o].shipping = 0
    /\ orders[q].subtotal = 2500 /\ orders[q].discount > 0 /\ orders[q].shipping = 599

\* C22: tax is 8% of (subtotal + shipping), before any discount, rounded half
\* up to whole cents: it is the one number of cents t with
\* 8% * amount - 0.5 < t <= 8% * amount + 0.5.
C22_TaxRounded ==
  \A o \in 1..Len(orders) :
    LET amount == orders[o].subtotal + orders[o].shipping IN
      /\ 100 * orders[o].tax <= 8 * amount + 50
      /\ 100 * orders[o].tax > 8 * amount - 50

\* C22 witness: subtotal 25.00 with shipping 5.99 gives tax 2.48 (rounded up
\* from 2.4792), and subtotal 50.00 with free shipping gives tax 4.00.
C22_Witness ==
  \E o, q \in 1..Len(orders) :
    /\ orders[o].subtotal = 2500 /\ orders[o].shipping = 599 /\ orders[o].tax = 248
    /\ orders[o].discount > 0
    /\ orders[q].subtotal = 5000 /\ orders[q].shipping = 0 /\ orders[q].tax = 400

\* The discount the specification prescribes for an applied coupon.
PrescribedDiscount(subtotal) ==
  IF coupon.type = "percentage"
  THEN IF coupon.maximumDiscount # 0 /\ 100 * coupon.maximumDiscount < subtotal * coupon.value
       THEN 100 * coupon.maximumDiscount
       ELSE subtotal * coupon.value
  ELSE 100 * coupon.value

C23_DiscountStep ==
  \A c \in CallIds :
    /\ (call[c].pc = "validate" /\ call'[c].pc = "create") =>
         100 * call'[c].discount =
           IF call'[c].applied THEN PrescribedDiscount(call[c].subtotal) ELSE 0
    /\ (call[c].pc = "create" /\ call'[c].pc = "stock") =>
         orders'[call'[c].orderId].discount = call[c].discount

\* C23: the discount of an order is 0 when no coupon is applied; for an applied
\* percentage coupon it is subtotal * value / 100, lowered to maximumDiscount
\* when that cap is set and smaller; for an applied fixed coupon it is the
\* coupon's value, whatever its maximumDiscount.
C23_DiscountRule == [][C23_DiscountStep]_vars

\* C23 witness: a persisted order whose coupon was applied and whose cap came
\* into play: a capped percentage discount, or a fixed discount above the cap.
C23_Witness ==
  \E o \in 1..Len(orders) :
    /\ coupon.maximumDiscount # 0
    /\ orders[o].discount > 0
    /\ \/ coupon.type = "percentage" /\ orders[o].discount = coupon.maximumDiscount
                                     /\ 100 * orders[o].discount < orders[o].subtotal * coupon.value
       \/ coupon.type = "fixed" /\ orders[o].discount = coupon.value
                                /\ orders[o].discount > coupon.maximumDiscount

\* C24: cancelOrder never changes a coupon's usedCount: no step of a
\* cancelOrder request, the cancellation of an order that applied a coupon
\* included, writes the coupon.
C24_CancelKeepsUsedCount ==
  [][(cancel' # cancel) => coupon' = coupon]_vars

\* C24 witness: an order that applied the coupon was cancelled and the coupon
\* still counts its use.
C24_Witness ==
  \E k \in CancelIds :
    /\ cancel[k].pc = "done"
    /\ orders[cancel[k].orderId].discount > 0
    /\ orders[cancel[k].orderId].status = "CANCELLED"
    /\ coupon.usedCount = 1

\* C25: updateOrder changes nothing of an order but its status (and the
\* tracking number, estimated delivery and notes, which nothing reads), and
\* whatever status it sets it changes no stockCount and no usedCount.
C25_UpdateOrderFrame ==
  [][(nUpdates' # nUpdates) =>
       /\ stockCount' = stockCount
       /\ coupon' = coupon
       /\ Len(orders') = Len(orders)
       /\ \A o \in 1..Len(orders) : [orders'[o] EXCEPT !.status = orders[o].status] = orders[o]]_vars

\* C25 witness: the admin set an order CANCELLED, no cancelOrder ran, and the
\* order's stock is still taken.
C25_Witness ==
  \E o \in 1..Len(orders) :
    /\ nUpdates = 1
    /\ orders[o].status = "CANCELLED"
    /\ \A k \in CancelIds : cancel[k].pc = "idle"
    /\ \A c \in CallIds : call[c].pc \in {"idle", "done"}
    /\ \E p \in Products : OrderQty(o, p) > 0 /\ stockCount[p] < stock0[p]

\* C26: every order persisted by createOrder starts with status PENDING,
\* payment status PENDING and payment method CASH_ON_DELIVERY, whatever the
\* request contains.
C26_NewOrderPending ==
  [][Len(orders') > Len(orders) =>
       /\ orders'[Len(orders')].status = "PENDING"
       /\ orders'[Len(orders')].paymentStatus = "PENDING"
       /\ orders'[Len(orders')].paymentMethod = "CASH_ON_DELIVERY"]_vars

\* C26 witness: two orders were persisted, one of them with a coupon discount.
C26_Witness ==
  /\ Len(orders) = 2
  /\ \E o \in 1..Len(orders) : orders[o].discount > 0
  /\ \A o \in 1..Len(orders) : orders[o].status = "PENDING"

\* C27: no two persisted orders share an order number: a createOrder whose
\* generated number an existing order has is rejected (or retried) and no
\* second order with that number is stored.
C27_OrderNumbersUnique ==
  \A o, q \in 1..Len(orders) :
    orders[o].orderNumber = orders[q].orderNumber => o = q

\* C27 witness: a createOrder was rejected at the insert of its order while an
\* order was already stored (its generated number was taken).
C27_Witness ==
  \E c \in CallIds :
    /\ call[c].pc = "failed" /\ call[c].err = 500 /\ call[c].orderId = 0
    /\ Len(orders) = 1

RECURSIVE RestoredFor(_, _, _)
\* Quantity of p that the cancelOrder requests 1..n have added back on behalf
\* of order o.
RestoredFor(n, o, p) ==
  IF n = 0 THEN 0
  ELSE (IF cancel[n].orderId = o THEN cancel[n].restored[p] ELSE 0)
       + RestoredFor(n - 1, o, p)

\* C28: an order's stock is restored at most once: under any sequence or
\* interleaving of cancelOrder and updateOrder calls, the quantity added back
\* to a product on behalf of an order never exceeds what the order took of it.
C28_RestoredAtMostOnce ==
  \A o \in 1..Len(orders), p \in Products :
    RestoredFor(MaxCancels + 1, o, p) <= OrderQty(o, p)

\* C29: getOrderById and getOrderByNumber hand an order only to its owner or
\* to an admin: a signed-in user whose stored role is USER who asks for an
\* order of another user is answered 403 'Access denied', never the order.
C29_OrderReadByOwnerOrAdmin ==
  ( /\ reply.op \in {"getOrderById", "getOrderByNumber"}
    /\ reply.orderId # 0
    /\ StoredRole[reply.userId] = "USER"
    /\ orders[reply.orderId].userId # reply.userId )
  => (reply.status = 403 /\ reply.message = "Access denied")

\* C30: with requests served one at a time and the stock left alone, a user's
\* cart holds at most one item per (product, selectedColor, selectedSize) and
\* every item's quantity lies between 1 and the product's stockCount; an
\* addToCart that is accepted either adds a new item for a variant the cart
\* did not hold or raises the quantity of the existing item; a request answered
\* 'Insufficient stock' leaves the cart unchanged.
KeyOf(row) == <<row.userId, row.productId, row.selectedColor, row.selectedSize>>

CartKey(i) == KeyOf(cart[i])

CartWellFormed ==
  /\ \A i, j \in LiveCart : CartKey(i) = CartKey(j) => i = j
  /\ \A i \in LiveCart :
       cart[i].quantity >= 1 /\ cart[i].quantity <= stockCount[cart[i].productId]

C30_CartStep ==
  /\ CartWellFormed'
  /\ reply'.message = "Insufficient stock" => cart' = cart
  /\ (reply'.op = "addToCart" /\ reply'.status = 201 /\ cart' # cart) =>
       \/ /\ Len(cart') = Len(cart) + 1
          /\ \A i \in LiveCart : CartKey(i) # KeyOf(cart'[Len(cart')])
          /\ \A i \in 1..Len(cart) : cart'[i] = cart[i]
       \/ /\ Len(cart') = Len(cart)
          /\ \E i \in LiveCart :
               /\ cart'[i].quantity > cart[i].quantity
               /\ cart' = [cart EXCEPT ![i].quantity = cart'[i].quantity]

C30_CartOneItemPerVariant == [][C30_CartStep]_vars
====
